---- MODULE Spec2Model ----
(***************************************************************************)
(* TaskTide: the Pomodoro timer component of src/src/Timer.tsx.            *)
(*                                                                         *)
(* The component is a React function component.  Its state is the reducer  *)
(* state (`state`), three useState cells (workMinutes, breakMinutes,       *)
(* autoStart), two refs (timerRef, isLoggingRef) and the browser's         *)
(* localStorage.  A step of the model is one of                            *)
(*   - an event: a user intent or the interval callback; its handler runs, *)
(*     its dispatches are reduced and the new render is committed;         *)
(*   - RunEffects: the useEffect bodies the last commit scheduled run, in  *)
(*     declaration order, reading the values of that commit; what they     *)
(*     dispatch is reduced and committed;                                  *)
(*   - Reload: the page is reloaded; memory is lost, localStorage stays;   *)
(*   - Remount: the component is unmounted (its cleanups run) and mounted  *)
(*     again.                                                              *)
(* React flushes the effects of a commit before it processes the next      *)
(* update, so events are taken only when no effect is pending.             *)
(*                                                                         *)
(* Spec starts over an empty localStorage and takes every step.            *)
(* SpecStored starts over the stores earlier visits or damage left behind: *)
(* full histories, invalid sessionLog items, missing keys.  SpecFailing    *)
(* lets localStorage.setItem throw.  SpecScenario is the run of one Work   *)
(* countdown from the first render.  SpecDamaged starts over stores with   *)
(* one key absent, unparseable, malformed or below one minute.             *)
(* SpecEditing lets the duration fields be left while the timer runs.      *)
(* SpecLong grows a history from nothing past the cap of the log.          *)
(* SpecAlone leaves the started timer to the interval and the effects,     *)
(* under weak fairness of both.  SpecLegacy is the first Timer component,  *)
(* src/unnamed/part_001.                                                   *)
(***************************************************************************)
EXTENDS Integers, Sequences, FiniteSets, TLC

\* ------------------------------------------------------------------ bounds

\* Largest number of minutes the user types into a duration field.
MaxMinutes == 1

\* Completed phases counted after which no further tick is delivered.
MaxSessions == 2

\* ------------------------------------------------------- program constants

\* useState<number>(25)
DefaultWorkMinutes == 25

\* useState<number>(5)
DefaultBreakMinutes == 5

\* minutes * 60
SecondsPerMinute == 60

\* state.sessionLog.slice(0, 49)
LogKeep == 49

VARIABLES
    state,          \* the useReducer state (TimerState)
    workMinutes,    \* useState
    breakMinutes,   \* useState
    autoStart,      \* useState
    store,          \* localStorage: key -> <<>> (absent) or <<item>>
    intervals,      \* number of setInterval timers that are armed
    timerLive,      \* timerRef.current names an armed interval
    isLoggingRef,   \* isLoggingRef.current
    pending,        \* effects scheduled by the last commit, not yet run
    lastOp,         \* the handler or step that produced this state
    lastArg,        \* the text committed by a duration field, else <<>>
    dispatched,     \* PHASE_TRANSITION actions dispatched by this step
    failing,        \* the keys for which localStorage.setItem throws
    toasts          \* "Failed to save" toasts shown by this step

vars == <<state, workMinutes, breakMinutes, autoStart, store, intervals,
          timerLive, isLoggingRef, pending, lastOp, lastArg, dispatched,
          failing, toasts>>

\* ------------------------------------------------------------- formatTime

Min(a, b) == IF a < b THEN a ELSE b

Max(a, b) == IF a > b THEN a ELSE b

DigitChar(d) == <<"0", "1", "2", "3", "4", "5", "6", "7", "8", "9">>[d + 1]

RECURSIVE StringOf(_)
\* String(n) for an integer n: its decimal digits, after a minus sign when
\* n is negative.
StringOf(n) == IF n < 0 THEN <<"-">> \o StringOf(0 - n)
               ELSE IF n < 10 THEN <<DigitChar(n)>>
               ELSE StringOf(n \div 10) \o <<DigitChar(n % 10)>>

\* a % b of JavaScript: the remainder takes the sign of the dividend.
Remainder(a, b) == IF a < 0 THEN 0 - ((0 - a) % b) ELSE a % b

\* s.padStart(2, "0")
PadStart2(s) == IF Len(s) < 2 THEN <<"0">> \o s ELSE s

formatTime(totalSeconds) ==
    PadStart2(StringOf(totalSeconds \div SecondsPerMinute)) \o <<":">> \o
    PadStart2(StringOf(Remainder(totalSeconds, SecondsPerMinute)))

\* --------------------------------------------------------------- parseInt

IsDigit(c) == c \in {"0", "1", "2", "3", "4", "5", "6", "7", "8", "9"}

DigitValue(c) == CHOOSE d \in 0..9 : DigitChar(d) = c

RECURSIVE LeadingDigits(_)
LeadingDigits(t) == IF t = <<>> \/ ~IsDigit(Head(t)) THEN <<>>
                    ELSE <<Head(t)>> \o LeadingDigits(Tail(t))

RECURSIVE DigitsValue(_)
DigitsValue(ds) == IF ds = <<>> THEN 0
                   ELSE 10 * DigitsValue(SubSeq(ds, 1, Len(ds) - 1))
                        + DigitValue(ds[Len(ds)])

\* parseInt(text): an optional sign, then the leading decimal digits; NaN
\* when there is none.
parseInt(t) ==
    LET neg  == t # <<>> /\ Head(t) = "-"
        body == IF t # <<>> /\ Head(t) \in {"-", "+"} THEN Tail(t) ELSE t
        ds   == LeadingDigits(body)
    IN  IF ds = <<>> THEN [nan |-> TRUE, val |-> 0]
        ELSE [nan |-> FALSE,
              val |-> IF neg THEN 0 - DigitsValue(ds) ELSE DigitsValue(ds)]

\* Mutant: parseInt(text) || 1, without Math.max.
CoerceMinutes_NoMax(t) ==
    LET p == parseInt(t)
    IN  IF p.nan \/ p.val = 0 THEN 1 ELSE p.val

\* Math.max(1, parseInt(text) || 1)
CoerceMinutes(t) ==
    LET p == parseInt(t)
    IN  Max(1, IF p.nan \/ p.val = 0 THEN 1 ELSE p.val)

\* Texts a duration field is left with.
Texts == {StringOf(n) : n \in 1..MaxMinutes}
         \cup {<<>>, <<"0">>, <<"-", "1">>, <<"1", ".", "5">>, <<"e">>}

\* ------------------------------------------------------------ timerReducer

FocusMessage == "Focus time!"

BreakStartMessage == "Break time! (party)"

BackToWorkMessage == "Back to work!"

BreakMessage == "Break time! (coffee)"

InitialState ==
    [secondsLeft   |-> DefaultWorkMinutes * SecondsPerMinute,
     isRunning     |-> FALSE,
     isBreak       |-> FALSE,
     message       |-> FocusMessage,
     workSessions  |-> 0,
     breakSessions |-> 0,
     sessionLog    |-> <<>>]

\* A log entry.  Its id and time are fresh values (Date.now, Math.random, the
\* wall clock) that no operation reads; an entry is its type and duration.
LogEntry(wasBreak, wm, bm) ==
    [type     |-> IF wasBreak THEN "Break" ELSE "Work",
     duration |-> formatTime(IF wasBreak THEN bm * SecondsPerMinute
                                         ELSE wm * SecondsPerMinute)]

\* Mutant: the log is not sliced before the new entry is put in front.
Prepend_NoSlice(entry, log) == <<entry>> \o log

\* [entry, ...log.slice(0, 49)]
Prepend(entry, log) == <<entry>> \o SubSeq(log, 1, Min(Len(log), LogKeep))

\* Mutant: a tick takes two seconds off while more than one is left.
ReduceTick_TwoSeconds(s) ==
    [s EXCEPT !.secondsLeft = IF s.secondsLeft > 1 THEN s.secondsLeft - 2
                              ELSE 0]

\* Mutant: the tick that reaches 0 also stops the timer, as the first version
\* of the component did (setIsRunning(false) when prev === 1).
ReduceTick_StopsAtZero(s) ==
    [s EXCEPT !.secondsLeft = IF s.secondsLeft > 0 THEN s.secondsLeft - 1 ELSE 0,
              !.isRunning   = IF s.secondsLeft = 1 THEN FALSE ELSE s.isRunning]

\* Mutant: the tick that reaches 0 switches the phase itself, as the first
\* version of the component did.
ReduceTick_SwitchesPhase(s) ==
    IF s.secondsLeft = 1
    THEN [s EXCEPT !.secondsLeft = 0, !.isBreak = ~s.isBreak,
                   !.workSessions = s.workSessions + 1]
    ELSE [s EXCEPT !.secondsLeft = IF s.secondsLeft > 0 THEN s.secondsLeft - 1
                                                        ELSE 0]

ReduceTick(s) ==
    [s EXCEPT !.secondsLeft = IF s.secondsLeft > 0 THEN s.secondsLeft - 1 ELSE 0]

\* Mutant: the counter is chosen by the phase entered, not the phase ended.
ReducePhaseTransition_CountsNextPhase(s, a) ==
    LET nextPhase == ~s.isBreak
    IN  [s EXCEPT
           !.secondsLeft   = (IF nextPhase THEN a.breakMinutes
                                           ELSE a.workMinutes) * SecondsPerMinute,
           !.isBreak       = nextPhase,
           !.isRunning     = IF nextPhase THEN TRUE ELSE a.autoStart,
           !.message       = IF nextPhase THEN BreakStartMessage
                                          ELSE BackToWorkMessage,
           !.workSessions  = IF nextPhase THEN s.workSessions
                                          ELSE s.workSessions + 1,
           !.breakSessions = IF nextPhase THEN s.breakSessions + 1
                                          ELSE s.breakSessions,
           !.sessionLog    = Prepend(LogEntry(s.isBreak, a.workMinutes,
                                              a.breakMinutes), s.sessionLog)]

\* Mutant: autoStart decides isRunning after either phase.
ReducePhaseTransition_AutoStartBoth(s, a) ==
    LET nextPhase == ~s.isBreak
    IN  [s EXCEPT
           !.secondsLeft   = (IF nextPhase THEN a.breakMinutes
                                           ELSE a.workMinutes) * SecondsPerMinute,
           !.isBreak       = nextPhase,
           !.isRunning     = a.autoStart,
           !.message       = IF nextPhase THEN BreakStartMessage
                                          ELSE BackToWorkMessage,
           !.workSessions  = IF ~s.isBreak THEN s.workSessions + 1
                                           ELSE s.workSessions,
           !.breakSessions = IF s.isBreak THEN s.breakSessions + 1
                                          ELSE s.breakSessions,
           !.sessionLog    = Prepend(LogEntry(s.isBreak, a.workMinutes,
                                              a.breakMinutes), s.sessionLog)]

\* Mutant: the countdown is not set to the duration of the phase entered.
ReducePhaseTransition_KeepsSeconds(s, a) ==
    LET nextPhase == ~s.isBreak
    IN  [s EXCEPT
           !.isBreak       = nextPhase,
           !.isRunning     = IF nextPhase THEN TRUE ELSE a.autoStart,
           !.message       = IF nextPhase THEN BreakStartMessage
                                          ELSE BackToWorkMessage,
           !.workSessions  = IF ~s.isBreak THEN s.workSessions + 1
                                           ELSE s.workSessions,
           !.breakSessions = IF s.isBreak THEN s.breakSessions + 1
                                          ELSE s.breakSessions,
           !.sessionLog    = Prepend(LogEntry(s.isBreak, a.workMinutes,
                                              a.breakMinutes), s.sessionLog)]

\* Mutant: the phase entered always runs, whatever auto-start says.
ReducePhaseTransition_StaysRunning(s, a) ==
    LET nextPhase == ~s.isBreak
    IN  [s EXCEPT
           !.secondsLeft   = (IF nextPhase THEN a.breakMinutes
                                           ELSE a.workMinutes) * SecondsPerMinute,
           !.isBreak       = nextPhase,
           !.isRunning     = TRUE,
           !.message       = IF nextPhase THEN BreakStartMessage
                                          ELSE BackToWorkMessage,
           !.workSessions  = IF ~s.isBreak THEN s.workSessions + 1
                                           ELSE s.workSessions,
           !.breakSessions = IF s.isBreak THEN s.breakSessions + 1
                                          ELSE s.breakSessions,
           !.sessionLog    = Prepend(LogEntry(s.isBreak, a.workMinutes,
                                              a.breakMinutes), s.sessionLog)]

ReducePhaseTransition(s, a) ==
    LET nextPhase == ~s.isBreak
    IN  [s EXCEPT
           !.secondsLeft   = (IF nextPhase THEN a.breakMinutes
                                           ELSE a.workMinutes) * SecondsPerMinute,
           !.isBreak       = nextPhase,
           !.isRunning     = IF nextPhase THEN TRUE ELSE a.autoStart,
           !.message       = IF nextPhase THEN BreakStartMessage
                                          ELSE BackToWorkMessage,
           !.workSessions  = IF ~s.isBreak THEN s.workSessions + 1
                                           ELSE s.workSessions,
           !.breakSessions = IF s.isBreak THEN s.breakSessions + 1
                                          ELSE s.breakSessions,
           !.sessionLog    = Prepend(LogEntry(s.isBreak, a.workMinutes,
                                              a.breakMinutes), s.sessionLog)]

\* Mutant: TOGGLE_TIMER takes the phase from the action as well.
ReduceToggleTimer_TakesPhase(s, a) ==
    [s EXCEPT !.isRunning = ~s.isRunning,
              !.isBreak   = a.isBreak,
              !.message   = IF a.isBreak THEN BreakMessage ELSE FocusMessage]

ReduceToggleTimer(s, a) ==
    [s EXCEPT !.isRunning = ~s.isRunning,
              !.message   = IF a.isBreak THEN BreakMessage ELSE FocusMessage]

\* Mutant: STOP returns to the Work phase.
ReduceStop_LeavesPhase(s) == [s EXCEPT !.isRunning = FALSE, !.isBreak = FALSE]

ReduceStop(s) == [s EXCEPT !.isRunning = FALSE]

\* Mutant: RESET puts the countdown at the initial 25 minutes.
ReduceReset_InitialSeconds(s, a) ==
    [s EXCEPT !.isRunning   = FALSE,
              !.isBreak     = FALSE,
              !.secondsLeft = DefaultWorkMinutes * SecondsPerMinute,
              !.message     = FocusMessage]

\* Mutant: RESET clears the counters as well.
ReduceReset_ClearsCounters(s, a) ==
    [s EXCEPT !.isRunning     = FALSE,
              !.isBreak       = FALSE,
              !.secondsLeft   = a.workMinutes * SecondsPerMinute,
              !.message       = FocusMessage,
              !.workSessions  = 0,
              !.breakSessions = 0]

ReduceReset(s, a) ==
    [s EXCEPT !.isRunning   = FALSE,
              !.isBreak     = FALSE,
              !.secondsLeft = a.workMinutes * SecondsPerMinute,
              !.message     = FocusMessage]

\* Mutant: clearing the history also resets the timer.
ReduceResetHistory_ResetsTimer(s) ==
    [s EXCEPT !.sessionLog = <<>>, !.workSessions = 0, !.breakSessions = 0,
              !.isRunning = FALSE, !.isBreak = FALSE]

\* Mutant: clearing the history zeroes the counters and keeps the log.
ReduceResetHistory_KeepsLog(s) ==
    [s EXCEPT !.workSessions = 0, !.breakSessions = 0]

ReduceResetHistory(s) ==
    [s EXCEPT !.sessionLog = <<>>, !.workSessions = 0, !.breakSessions = 0]

ReduceInitState(s, a) ==
    [s EXCEPT !.workSessions  = a.workSessions,
              !.breakSessions = a.breakSessions,
              !.sessionLog    = a.sessionLog]

timerReducer(s, a) ==
    CASE a.type = "TICK"             -> ReduceTick(s)
      [] a.type = "PHASE_TRANSITION" -> ReducePhaseTransition(s, a)
      [] a.type = "TOGGLE_TIMER"     -> ReduceToggleTimer(s, a)
      [] a.type = "STOP"             -> ReduceStop(s)
      [] a.type = "RESET"            -> ReduceReset(s, a)
      [] a.type = "RESET_HISTORY"    -> ReduceResetHistory(s)
      [] a.type = "INIT_STATE"       -> ReduceInitState(s, a)
      [] OTHER                       -> s

RECURSIVE ReduceAll(_, _)
\* The actions dispatched before a render, reduced in dispatch order.
ReduceAll(s, as) == IF as = <<>> THEN s
                    ELSE ReduceAll(timerReducer(s, Head(as)), Tail(as))

\* The actions that give sessionLog a new array.
ReplacesLog(as) ==
    \E i \in 1..Len(as) :
        as[i].type \in {"PHASE_TRANSITION", "RESET_HISTORY", "INIT_STATE"}

\* ------------------------------------------------------------ localStorage

\* A stored item is the JSON text of a value: json is what JSON.parse makes
\* of it ("invalid" when it throws) and val the parsed value.  An element of
\* a stored array is null or an object; of an object the model keeps the
\* typeof of id and time, the type, and the typeof and value of duration.
EmptyStore ==
    [workMinutes   |-> <<>>, breakMinutes  |-> <<>>, autoStart  |-> <<>>,
     workSessions  |-> <<>>, breakSessions |-> <<>>, sessionLog |-> <<>>]

\* JSON.stringify of a log entry.
StringifyEntry(e) ==
    [isNull   |-> FALSE,
     id       |-> "string",
     type     |-> e.type,
     duration |-> [typeof |-> "string", val |-> e.duration],
     time     |-> "string"]

\* JSON.stringify(value) for the value the component keeps under `key`.
JSONstringify(key, value) ==
    CASE key \in {"workMinutes", "breakMinutes",
                  "workSessions", "breakSessions"}
             -> [json |-> "number", val |-> value]
      [] key = "autoStart"
             -> [json |-> "boolean", val |-> value]
      [] key = "sessionLog"
             -> [json |-> "array",
                 val  |-> [i \in 1..Len(value) |-> StringifyEntry(value[i])]]

\* The test getLocalStorage applies to every element of a stored sessionLog.
ValidEntry(entry) ==
    /\ ~entry.isNull
    /\ entry.id = "string"
    /\ entry.type \in {"Work", "Break"}
    /\ entry.duration.typeof = "string"
    /\ entry.time = "string"

\* The log entry a validated element is.
ParsedEntry(entry) == [type |-> entry.type, duration |-> entry.duration.val]

\* Mutant: the valid entries of a stored sessionLog are kept and the others
\* are dropped.
getLocalStorage_KeepsValidEntries(st, key, fallback) ==
    IF Len(st[key]) = 0 THEN fallback
    ELSE LET item == st[key][1]
         IN  IF item.json = "invalid" THEN fallback
             ELSE IF key = "sessionLog"
             THEN IF item.json # "array" THEN fallback
                  ELSE LET kept == SelectSeq(item.val, ValidEntry)
                       IN  [i \in 1..Len(kept) |-> ParsedEntry(kept[i])]
             ELSE item.val

\* Mutant: one key that is absent or unparseable makes every key take its
\* fallback.
getLocalStorage_AllOrNothing(st, key, fallback) ==
    IF \E k \in DOMAIN st : Len(st[k]) = 0 \/ st[k][1].json = "invalid"
    THEN fallback
    ELSE LET item == st[key][1]
         IN  IF key = "sessionLog"
             THEN IF item.json # "array" THEN fallback
                  ELSE IF \E i \in 1..Len(item.val) : ~ValidEntry(item.val[i])
                       THEN fallback
                       ELSE [i \in 1..Len(item.val) |-> ParsedEntry(item.val[i])]
             ELSE item.val

\* getLocalStorage(key, fallback) on the store st.
getLocalStorage(st, key, fallback) ==
    IF Len(st[key]) = 0 THEN fallback
    ELSE LET item == st[key][1]
         IN  IF item.json = "invalid" THEN fallback
             ELSE IF key = "sessionLog"
             THEN IF item.json # "array" THEN fallback
                  ELSE IF \E i \in 1..Len(item.val) : ~ValidEntry(item.val[i])
                  THEN fallback
                  ELSE [i \in 1..Len(item.val) |-> ParsedEntry(item.val[i])]
             ELSE item.val

\* Mutant: setLocalStorage without its try/catch; the exception of setItem
\* reaches the caller.
SavePropagates_NoCatch(keys) == keys \cap failing # {}

\* Whether an exception leaves setLocalStorage when the keys are written:
\* the catch block reports it and returns.
SavePropagates(keys) == FALSE

\* setLocalStorage(key, value) on the store st: when setItem throws, the
\* item stays as it was.
setLocalStorage(st, key, value) ==
    IF key \in failing THEN st
    ELSE [st EXCEPT ![key] = <<JSONstringify(key, value)>>]

\* The toasts setLocalStorage shows when the keys are written.
Toasts(keys) == Cardinality(keys \cap failing)

\* The keys of the history.
HistoryKeys == {"workSessions", "breakSessions", "sessionLog"}

\* The keys the persist effect writes.
Keys == HistoryKeys \cup {"workMinutes", "breakMinutes", "autoStart"}

\* ------------------------------------------------------------ the interval

\* timerRef and the armed intervals: n intervals are armed, and `live` says
\* whether the one timerRef.current names is among them.
TimerNow == [n |-> intervals, live |-> timerLive]

\* if (timerRef.current) clearInterval(timerRef.current)
ClearInterval(t) == IF t.live THEN [n |-> t.n - 1, live |-> FALSE] ELSE t

\* Mutant: setInterval(..., 1000) without keeping its id in timerRef.
SetInterval_IdDropped(t) == [n |-> t.n + 1, live |-> t.live]

\* timerRef.current = setInterval(..., 1000)
SetInterval(t) == [n |-> t.n + 1, live |-> TRUE]

\* ------------------------------------------------------------- the effects

MountEffects == {"load", "persist", "countdown", "phase"}

\* The persist effect: the six keys are written from the committed values.
PersistEffect(st) ==
    setLocalStorage(setLocalStorage(setLocalStorage(setLocalStorage(
    setLocalStorage(setLocalStorage(st,
        "workMinutes", workMinutes),
        "breakMinutes", breakMinutes),
        "autoStart", autoStart),
        "workSessions", state.workSessions),
        "breakSessions", state.breakSessions),
        "sessionLog", state.sessionLog)

\* The countdown effect: the cleanup of its previous run, then its body.
CountdownEffect(t) ==
    IF state.isRunning THEN SetInterval(ClearInterval(ClearInterval(t)))
                       ELSE ClearInterval(ClearInterval(t))

\* The condition of the phase transition effect.
PhaseTransitionDue(s) == s.secondsLeft <= 0 /\ s.isRunning /\ ~isLoggingRef

\* Mutant: the phase transition effect never restarts the interval.
RestartsTimer_Never == FALSE

\* Mutant: the phase transition effect restarts the interval after every
\* phase.
RestartsTimer_Always == TRUE

\* The phase transition effect restarts the interval when the next phase runs.
RestartsTimer == ~state.isBreak \/ (state.isBreak /\ autoStart)

\* The interval after the phase transition effect has fired.
PhaseEffectTimer(t) ==
    IF RestartsTimer THEN SetInterval(ClearInterval(ClearInterval(t)))
                     ELSE ClearInterval(t)

\* Mutant: the phase transition effect saves nothing; the counters and the
\* log wait for the persist effect.
PhaseEffectSave_Deferred(st) == st

\* The immediate save of the phase transition effect.
PhaseEffectSave(st) ==
    LET ws  == state.workSessions + (IF state.isBreak THEN 0 ELSE 1)
        bs  == state.breakSessions + (IF state.isBreak THEN 1 ELSE 0)
        log == Prepend(LogEntry(state.isBreak, workMinutes, breakMinutes),
                       state.sessionLog)
    IN  setLocalStorage(setLocalStorage(setLocalStorage(st,
            "workSessions", ws), "breakSessions", bs), "sessionLog", log)

\* Mutant: the persist effect runs at mount only; no later commit schedules
\* it.
EffectsToRun_PersistAtMountOnly(s1, wm1, bm1, au1, s2, wm2, bm2, au2, newLog) ==
    LET config == wm1 # wm2 \/ bm1 # bm2 \/ au1 # au2
        counts == s1.workSessions # s2.workSessions
                  \/ s1.breakSessions # s2.breakSessions
    IN  (IF s1.isRunning # s2.isRunning THEN {"countdown"} ELSE {})
        \cup (IF (config \/ counts \/ newLog
                  \/ s1.secondsLeft # s2.secondsLeft
                  \/ s1.isRunning # s2.isRunning
                  \/ s1.isBreak # s2.isBreak)
                 /\ PhaseTransitionDue(s2)
              THEN {"phase"} ELSE {})

\* The effects a commit schedules: those with a dependency that changed from
\* the previous commit (s1, wm1, bm1, au1) to this one (s2, wm2, bm2, au2);
\* newLog says that sessionLog is a new array.  The body of the phase
\* transition effect is one `if`; a run whose condition is false does
\* nothing and is not scheduled as a step.
EffectsToRun(s1, wm1, bm1, au1, s2, wm2, bm2, au2, newLog) ==
    LET config == wm1 # wm2 \/ bm1 # bm2 \/ au1 # au2
        counts == s1.workSessions # s2.workSessions
                  \/ s1.breakSessions # s2.breakSessions
    IN  (IF config \/ counts \/ newLog THEN {"persist"} ELSE {})
        \cup (IF s1.isRunning # s2.isRunning THEN {"countdown"} ELSE {})
        \cup (IF (config \/ counts \/ newLog
                  \/ s1.secondsLeft # s2.secondsLeft
                  \/ s1.isRunning # s2.isRunning
                  \/ s1.isBreak # s2.isBreak)
                 /\ PhaseTransitionDue(s2)
              THEN {"phase"} ELSE {})

\* ------------------------------------------------------------------- steps

Init ==
    /\ failing = {}
    /\ toasts = 0
    /\ state = InitialState
    /\ workMinutes = DefaultWorkMinutes
    /\ breakMinutes = DefaultBreakMinutes
    /\ autoStart = FALSE
    /\ store = EmptyStore
    /\ intervals = 0
    /\ timerLive = FALSE
    /\ isLoggingRef = FALSE
    /\ pending = MountEffects
    /\ lastOp = "mount"
    /\ lastArg = <<>>
    /\ dispatched = 0

\* The keys the handler `op` writes to the store.
WrittenBy(op) == IF op = "confirmResetHistory" THEN HistoryKeys ELSE {}

\* An event: the handler `op` dispatches `actions` and sets the useState
\* cells to wm2, bm2, au2 and the store to st2; the render is committed.
Event(op, arg, actions, wm2, bm2, au2, st2) ==
    /\ pending = {}
    /\ LET s2 == ReduceAll(state, actions)
       IN  /\ state' = s2
           /\ pending' = EffectsToRun(state, workMinutes, breakMinutes,
                                      autoStart, s2, wm2, bm2, au2,
                                      ReplacesLog(actions))
    /\ workMinutes' = wm2
    /\ breakMinutes' = bm2
    /\ autoStart' = au2
    /\ store' = st2
    /\ lastOp' = op
    /\ lastArg' = arg
    /\ dispatched' = 0
    /\ toasts' = Toasts(WrittenBy(op))
    /\ UNCHANGED <<intervals, timerLive, isLoggingRef, failing>>

\* The longest countdown the model runs down: that of the largest duration
\* typed into a field.
TickHorizon == MaxMinutes * SecondsPerMinute

\* The interval callback.  The model delivers ticks to countdowns within
\* TickHorizon, until MaxSessions phases have completed.
Tick ==
    /\ intervals > 0
    /\ state.secondsLeft <= TickHorizon
    /\ state.workSessions + state.breakSessions < MaxSessions
    /\ Event("Tick", <<>>, <<[type |-> "TICK"]>>,
             workMinutes, breakMinutes, autoStart, store)

\* The start/pause button.
toggleTimer ==
    Event("toggleTimer", <<>>,
          <<[type |-> "TOGGLE_TIMER", isBreak |-> state.isBreak]>>,
          workMinutes, breakMinutes, autoStart, store)

\* Space: the listener registered at mount calls the toggleTimer of the
\* first render, whose state.isBreak is the initial one.
KeySpace ==
    Event("KeySpace", <<>>,
          <<[type |-> "TOGGLE_TIMER", isBreak |-> InitialState.isBreak]>>,
          workMinutes, breakMinutes, autoStart, store)

\* The stop button and the S key.
stopTimer ==
    Event("stopTimer", <<>>, <<[type |-> "STOP"]>>,
          workMinutes, breakMinutes, autoStart, store)

\* The reset button.
resetTimer ==
    Event("resetTimer", <<>>,
          <<[type |-> "RESET", workMinutes |-> workMinutes]>>,
          workMinutes, breakMinutes, autoStart, store)

\* R: the listener registered at mount calls the resetTimer of the first
\* render, whose workMinutes is the initial one.
KeyR ==
    Event("KeyR", <<>>,
          <<[type |-> "RESET", workMinutes |-> DefaultWorkMinutes]>>,
          workMinutes, breakMinutes, autoStart, store)

\* Mutant: the reset is dispatched with the workMinutes of the render, not
\* the value just committed.
handleWorkInputBlur_StaleMinutes(t) ==
    LET val == CoerceMinutes(t)
    IN  Event("handleWorkInputBlur", t,
              IF ~state.isBreak /\ ~state.isRunning
              THEN <<[type |-> "RESET", workMinutes |-> workMinutes]>>
              ELSE <<>>,
              val, breakMinutes, autoStart, store)

\* The work field is left holding the text t.
handleWorkInputBlur(t) ==
    LET val == CoerceMinutes(t)
    IN  Event("handleWorkInputBlur", t,
              IF ~state.isBreak /\ ~state.isRunning
              THEN <<[type |-> "RESET", workMinutes |-> val]>> ELSE <<>>,
              val, breakMinutes, autoStart, store)

\* Mutant: the break field resets a Break phase whether or not it is running.
handleBreakInputBlur_WhileRunning(t) ==
    LET val == CoerceMinutes(t)
    IN  Event("handleBreakInputBlur", t,
              IF state.isBreak
              THEN <<[type |-> "RESET", workMinutes |-> workMinutes]>>
              ELSE <<>>,
              workMinutes, val, autoStart, store)

\* The break field is left holding the text t.
handleBreakInputBlur(t) ==
    LET val == CoerceMinutes(t)
    IN  Event("handleBreakInputBlur", t,
              IF state.isBreak /\ ~state.isRunning
              THEN <<[type |-> "RESET", workMinutes |-> workMinutes]>>
              ELSE <<>>,
              workMinutes, val, autoStart, store)

\* The auto-start checkbox.
setAutoStart ==
    Event("setAutoStart", <<>>, <<>>,
          workMinutes, breakMinutes, ~autoStart, store)

\* The Clear History button of the confirmation dialog.
confirmResetHistory ==
    Event("confirmResetHistory", <<>>, <<[type |-> "RESET_HISTORY"]>>,
          workMinutes, breakMinutes, autoStart,
          setLocalStorage(setLocalStorage(setLocalStorage(store,
              "workSessions", 0), "breakSessions", 0), "sessionLog", <<>>))

\* The effects of the last commit run in declaration order: initialize from
\* localStorage, persist, countdown, phase transition.  What they dispatch is
\* reduced and the next render is committed.
RunEffects ==
    /\ pending # {}
    /\ LET load   == "load" \in pending
           work   == getLocalStorage(store, "workMinutes", DefaultWorkMinutes)
           brk    == getLocalStorage(store, "breakMinutes", DefaultBreakMinutes)
           auto   == getLocalStorage(store, "autoStart", FALSE)
           workS  == getLocalStorage(store, "workSessions", 0)
           breakS == getLocalStorage(store, "breakSessions", 0)
           log    == getLocalStorage(store, "sessionLog", <<>>)
           fires  == "phase" \in pending /\ PhaseTransitionDue(state)
           acts   == (IF load
                      THEN <<[type |-> "RESET", workMinutes |-> work],
                             [type |-> "INIT_STATE", workSessions |-> workS,
                              breakSessions |-> breakS, sessionLog |-> log]>>
                      ELSE <<>>)
                     \o (IF fires
                         THEN <<[type |-> "PHASE_TRANSITION",
                                 workMinutes  |-> workMinutes,
                                 breakMinutes |-> breakMinutes,
                                 autoStart    |-> autoStart]>>
                         ELSE <<>>)
           s2     == ReduceAll(state, acts)
           wm2    == IF load THEN work ELSE workMinutes
           bm2    == IF load THEN brk ELSE breakMinutes
           au2    == IF load THEN auto ELSE autoStart
           st1    == IF "persist" \in pending THEN PersistEffect(store)
                     ELSE store
           t1     == IF "countdown" \in pending
                     THEN (IF load THEN ClearInterval(TimerNow)
                           ELSE CountdownEffect(TimerNow))
                     ELSE TimerNow
           thrown == fires /\ SavePropagates(HistoryKeys)
           t2     == IF ~fires THEN t1
                     ELSE IF thrown THEN ClearInterval(t1)
                     ELSE PhaseEffectTimer(ClearInterval(t1))
       IN  /\ state' = s2
           /\ workMinutes' = wm2
           /\ breakMinutes' = bm2
           /\ autoStart' = au2
           /\ store' = IF fires THEN PhaseEffectSave(st1) ELSE st1
           /\ intervals' = t2.n
           /\ timerLive' = t2.live
           /\ pending' = EffectsToRun(state, workMinutes, breakMinutes,
                                      autoStart, s2, wm2, bm2, au2,
                                      ReplacesLog(acts))
           /\ dispatched' = IF fires THEN 1 ELSE 0
           /\ isLoggingRef' = thrown
           /\ toasts' = (IF "persist" \in pending THEN Toasts(Keys) ELSE 0)
                        + (IF fires THEN Toasts(HistoryKeys) ELSE 0)
    /\ UNCHANGED failing
    /\ lastOp' = "RunEffects"
    /\ lastArg' = <<>>

\* The page is reloaded: the component is mounted afresh over the same store.
Reload ==
    /\ state' = InitialState
    /\ workMinutes' = DefaultWorkMinutes
    /\ breakMinutes' = DefaultBreakMinutes
    /\ autoStart' = FALSE
    /\ intervals' = 0
    /\ timerLive' = FALSE
    /\ isLoggingRef' = FALSE
    /\ pending' = MountEffects
    /\ lastOp' = "mount"
    /\ lastArg' = <<>>
    /\ dispatched' = 0
    /\ toasts' = 0
    /\ UNCHANGED <<store, failing>>

\* The component is unmounted and mounted again: the cleanup of the countdown
\* effect runs, and the new instance starts over the same store.
Remount ==
    /\ pending = {}
    /\ intervals' = ClearInterval(TimerNow).n
    /\ timerLive' = FALSE
    /\ state' = InitialState
    /\ workMinutes' = DefaultWorkMinutes
    /\ breakMinutes' = DefaultBreakMinutes
    /\ autoStart' = FALSE
    /\ isLoggingRef' = FALSE
    /\ pending' = MountEffects
    /\ lastOp' = "mount"
    /\ lastArg' = <<>>
    /\ dispatched' = 0
    /\ toasts' = 0
    /\ UNCHANGED <<store, failing>>

\* The duration fields are disabled while the timer runs.
Next ==
    \/ Tick
    \/ toggleTimer
    \/ KeySpace
    \/ stopTimer
    \/ resetTimer
    \/ KeyR
    \/ \E t \in Texts : ~state.isRunning /\ handleWorkInputBlur(t)
    \/ \E t \in Texts : ~state.isRunning /\ handleBreakInputBlur(t)
    \/ setAutoStart
    \/ confirmResetHistory
    \/ RunEffects
    \/ Remount
    \/ Reload

Spec == Init /\ [][Next]_vars

\* ------------------------------------------- a store left by earlier visits

\* The most entries the log holds: the new one and the LogKeep kept.
LogCap == LogKeep + 1

\* A log of n entries as earlier visits wrote it: the phases alternate and
\* entry i carries the duration label of i minutes.
StoredLog(n) ==
    [i \in 1..n |->
        [type     |-> IF i % 2 = 1 THEN "Work" ELSE "Break",
         duration |-> formatTime(i * SecondsPerMinute)]]

\* The store after a visit with durations of one minute and auto-start on,
\* ws and bs completed phases, and `item` under sessionLog.
StoreOf(item, ws, bs) ==
    [setLocalStorage(setLocalStorage(setLocalStorage(setLocalStorage(
     setLocalStorage(EmptyStore,
        "workMinutes", 1),
        "breakMinutes", 1),
        "autoStart", TRUE),
        "workSessions", ws),
        "breakSessions", bs)
     EXCEPT !.sessionLog = <<item>>]

\* Stores whose history stands just below and at the cap.
FullStores ==
    {StoreOf(JSONstringify("sessionLog", StoredLog(LogKeep)),
             LogCap \div 2, LogKeep \div 2),
     StoreOf(JSONstringify("sessionLog", StoredLog(LogCap)),
             LogCap \div 2, LogCap \div 2)}

\* Stored items that are no JSON text of a sequence: text JSON.parse rejects,
\* a string, an object, null.  What they hold is never read.
NotALog ==
    {[json |-> "invalid", val |-> <<>>],
     [json |-> "string",  val |-> <<>>],
     [json |-> "object",  val |-> <<>>],
     [json |-> "null",    val |-> <<>>]}

\* Elements getLocalStorage rejects, made from the stored element e: null,
\* no id, a numeric id, no type, another type, a numeric duration, no time.
\* A field that is absent has the typeof "undefined".
Damaged(e) ==
    {[e EXCEPT !.isNull = TRUE],
     [e EXCEPT !.id = "undefined"],
     [e EXCEPT !.id = "number"],
     [e EXCEPT !.type = "undefined"],
     [e EXCEPT !.type = "Nap"],
     [e EXCEPT !.duration.typeof = "number"],
     [e EXCEPT !.time = "undefined"]}

\* Stores whose sessionLog the load effect has to reject: no sequence, a
\* sequence of one damaged entry, and a damaged entry after or before a
\* sound one.
CorruptStores ==
    LET e == StringifyEntry(StoredLog(1)[1])
    IN  {StoreOf(item, 1, 0) : item \in NotALog}
        \cup {StoreOf([json |-> "array", val |-> <<b>>], 1, 0) :
                 b \in Damaged(e)}
        \cup {StoreOf([json |-> "array", val |-> <<e, b>>], 1, 1) :
                 b \in Damaged(e)}
        \cup {StoreOf([json |-> "array", val |-> <<b, e>>], 1, 1) :
                 b \in Damaged(e)}

\* The store after one Work phase, whole and with one key missing.
PartialStores ==
    LET whole == StoreOf(JSONstringify("sessionLog", StoredLog(1)), 1, 0)
    IN  {whole} \cup {[whole EXCEPT ![k] = <<>>] : k \in Keys}

StoredStores == FullStores \cup CorruptStores \cup PartialStores

InitStored ==
    /\ failing = {}
    /\ toasts = 0
    /\ state = InitialState
    /\ workMinutes = DefaultWorkMinutes
    /\ breakMinutes = DefaultBreakMinutes
    /\ autoStart = FALSE
    /\ store \in StoredStores
    /\ intervals = 0
    /\ timerLive = FALSE
    /\ isLoggingRef = FALSE
    /\ pending = MountEffects
    /\ lastOp = "mount"
    /\ lastArg = <<>>
    /\ dispatched = 0

\* The interval callback over a stored history.  The model delivers ticks
\* until MaxSessions phases have completed on top of an empty history or of
\* one of LogKeep phases.
TickStored ==
    /\ intervals > 0
    /\ state.secondsLeft <= TickHorizon
    /\ LET n == state.workSessions + state.breakSessions
       IN  n < MaxSessions \/ (n >= LogKeep /\ n < LogKeep + MaxSessions)
    /\ Event("Tick", <<>>, <<[type |-> "TICK"]>>,
             workMinutes, breakMinutes, autoStart, store)

NextStored ==
    \/ TickStored
    \/ toggleTimer
    \/ stopTimer
    \/ resetTimer
    \/ setAutoStart
    \/ confirmResetHistory
    \/ RunEffects
    \/ Reload

SpecStored == InitStored /\ [][NextStored]_vars

\* --------------------------------------------- a store with one damaged key

\* The fallback the load effect passes to getLocalStorage for each key.
DefaultOf(key) ==
    CASE key = "workMinutes"   -> DefaultWorkMinutes
      [] key = "breakMinutes"  -> DefaultBreakMinutes
      [] key = "autoStart"     -> FALSE
      [] key = "workSessions"  -> 0
      [] key = "breakSessions" -> 0
      [] key = "sessionLog"    -> <<>>

\* An item under `key` whose text JSON.parse rejects.  What it holds is never
\* read.
Unparseable(key) ==
    [json |-> "invalid",
     val  |-> CASE key = "sessionLog" -> <<>>
                [] key = "autoStart"  -> FALSE
                [] OTHER              -> 0]

\* The store after one Work phase with durations of one minute.
WholeStore == StoreOf(JSONstringify("sessionLog", StoredLog(1)), 1, 0)

\* The whole store with the text under one key made unparseable.
UnparseableStores ==
    {[WholeStore EXCEPT ![k] = <<Unparseable(k)>>] : k \in Keys}

\* The whole store with a sessionLog that parses and fails the validation.
MalformedStores ==
    {[WholeStore EXCEPT !.sessionLog = <<item>>] :
        item \in {[json |-> "object", val |-> <<>>],
                  [json |-> "array",
                   val  |-> <<[StringifyEntry(StoredLog(1)[1])
                                 EXCEPT !.type = "Nap"]>>]}}

\* Whole minutes below one that JSON text can hold.
MinutesBelowOne == {0, 0 - 1}

\* The whole store with a duration below one minute under one of the two
\* duration keys.
BadMinutesStores ==
    {[WholeStore EXCEPT ![k] = <<JSONstringify(k, m)>>] :
        k \in {"workMinutes", "breakMinutes"}, m \in MinutesBelowOne}

DamagedStores ==
    PartialStores \cup UnparseableStores \cup MalformedStores
    \cup BadMinutesStores

InitDamaged ==
    /\ failing = {}
    /\ toasts = 0
    /\ state = InitialState
    /\ workMinutes = DefaultWorkMinutes
    /\ breakMinutes = DefaultBreakMinutes
    /\ autoStart = FALSE
    /\ store \in DamagedStores
    /\ intervals = 0
    /\ timerLive = FALSE
    /\ isLoggingRef = FALSE
    /\ pending = MountEffects
    /\ lastOp = "mount"
    /\ lastArg = <<>>
    /\ dispatched = 0

\* Fewer than MaxSessions phases have completed.  With a stored duration of
\* zero a phase completes without a tick, so the model takes a reset or a
\* reload, which lead back to such a phase, only while this holds.
SessionsLeft == state.workSessions + state.breakSessions < MaxSessions

NextDamaged ==
    \/ TickStored
    \/ toggleTimer
    \/ stopTimer
    \/ SessionsLeft /\ resetTimer
    \/ RunEffects
    \/ SessionsLeft /\ Reload

SpecDamaged == InitDamaged /\ [][NextDamaged]_vars

\* ------------------------------------- duration fields left at any time

\* The duration fields are disabled while the timer runs; a field that held
\* the focus when the timer started can still be left.  Here the blur
\* handlers are taken in every state.
NextEditing ==
    \/ Tick
    \/ toggleTimer
    \/ stopTimer
    \/ \E t \in Texts : handleWorkInputBlur(t)
    \/ \E t \in Texts : handleBreakInputBlur(t)
    \/ RunEffects

SpecEditing == Init /\ [][NextEditing]_vars

\* ------------------------------------------------- a store that fails

\* The ways setItem fails: not at all; for the log, the one large item, when
\* the quota is reached; for every key, when storage is denied.
FailureModes == {{}, {"sessionLog"}, Keys}

\* The storage begins or ceases to fail.
StorageChanges ==
    /\ \E f \in FailureModes : f # failing /\ failing' = f
    /\ toasts' = 0
    /\ lastOp' = "StorageChanges"
    /\ lastArg' = <<>>
    /\ dispatched' = 0
    /\ UNCHANGED <<state, workMinutes, breakMinutes, autoStart, store,
                   intervals, timerLive, isLoggingRef, pending>>

\* The stores of visits that set both durations to one minute, auto-start on
\* or off, and completed no phase.
FreshStores ==
    LET on == StoreOf(JSONstringify("sessionLog", <<>>), 0, 0)
    IN  {on, [on EXCEPT !.autoStart = <<JSONstringify("autoStart", FALSE)>>]}

InitFailing ==
    /\ failing = {}
    /\ toasts = 0
    /\ state = InitialState
    /\ workMinutes = DefaultWorkMinutes
    /\ breakMinutes = DefaultBreakMinutes
    /\ autoStart = FALSE
    /\ store \in FreshStores
    /\ intervals = 0
    /\ timerLive = FALSE
    /\ isLoggingRef = FALSE
    /\ pending = MountEffects
    /\ lastOp = "mount"
    /\ lastArg = <<>>
    /\ dispatched = 0

NextFailing ==
    \/ Tick
    \/ toggleTimer
    \/ stopTimer
    \/ confirmResetHistory
    \/ RunEffects
    \/ pending = {} /\ StorageChanges

SpecFailing == InitFailing /\ [][NextFailing]_vars

\* ------------------------------------------- a history grown from nothing

\* The interval callback over a history that grows from nothing past the cap
\* of the log: ticks are delivered until LogCap + MaxSessions phases have
\* completed.
TickLong ==
    /\ intervals > 0
    /\ state.secondsLeft <= TickHorizon
    /\ state.workSessions + state.breakSessions < LogCap + MaxSessions
    /\ Event("Tick", <<>>, <<[type |-> "TICK"]>>,
             workMinutes, breakMinutes, autoStart, store)

\* A reset or a reload during a Break phase makes two Work entries follow
\* each other; the model takes them while fewer than MaxSessions phases have
\* completed, so that the logs it builds stay few.
NextLong ==
    \/ TickLong
    \/ toggleTimer
    \/ SessionsLeft /\ resetTimer
    \/ confirmResetHistory
    \/ RunEffects
    \/ SessionsLeft /\ Reload

SpecLong == InitFailing /\ [][NextLong]_vars

\* ------------------------------------------------- the legacy component

\* The first Timer component keeps its state in useState cells and has no
\* store, log or auto-start.  Its cells are held in the same variables:
\* `state` without the log, workMinutes, breakMinutes, and `intervals` for
\* the interval of its one effect.
LegacyFocusMessage == "Focus time! (plain)"

LegacyBreakMessage == "Break time! (plain)"

InitLegacy ==
    /\ failing = {}
    /\ toasts = 0
    /\ state = [InitialState EXCEPT !.message = LegacyFocusMessage]
    /\ workMinutes = DefaultWorkMinutes
    /\ breakMinutes = DefaultBreakMinutes
    /\ autoStart = FALSE
    /\ store = EmptyStore
    /\ intervals = 0
    /\ timerLive = FALSE
    /\ isLoggingRef = FALSE
    /\ pending = {}
    /\ lastOp = "mount"
    /\ lastArg = <<>>
    /\ dispatched = 0

\* A legacy handler `op` has set the cells to s2, wm2, bm2; the effect, whose
\* dependencies are isRunning, isBreak and the two durations, is cleaned up
\* and run again: an interval is armed exactly when isRunning holds.
LegacyCommit(op, s2, wm2, bm2) ==
    /\ state' = s2
    /\ workMinutes' = wm2
    /\ breakMinutes' = bm2
    /\ intervals' = IF s2.isRunning THEN 1 ELSE 0
    /\ lastOp' = op
    /\ UNCHANGED <<autoStart, store, timerLive, isLoggingRef, pending, lastArg,
                   dispatched, failing, toasts>>

\* The interval callback: at one second left the phase ends, the timer
\* stops, and the counter chosen by the phase entered is incremented.
LegacyTick ==
    /\ intervals > 0
    /\ state.secondsLeft <= TickHorizon
    /\ state.workSessions + state.breakSessions < MaxSessions
    /\ LET nextPhase == ~state.isBreak
       IN  LegacyCommit("LegacyTick",
               IF state.secondsLeft = 1
               THEN [state EXCEPT
                       !.isBreak       = nextPhase,
                       !.isRunning     = FALSE,
                       !.message       = IF nextPhase THEN BreakStartMessage
                                                      ELSE BackToWorkMessage,
                       !.breakSessions = IF nextPhase THEN @ + 1 ELSE @,
                       !.workSessions  = IF nextPhase THEN @ ELSE @ + 1,
                       !.secondsLeft   = (IF nextPhase THEN breakMinutes
                                          ELSE workMinutes) * SecondsPerMinute]
               ELSE [state EXCEPT !.secondsLeft = @ - 1],
               workMinutes, breakMinutes)

LegacyToggleTimer ==
    LegacyCommit("LegacyToggleTimer",
        [state EXCEPT !.isRunning = ~state.isRunning,
                      !.message   = IF state.isBreak THEN LegacyBreakMessage
                                    ELSE LegacyFocusMessage],
        workMinutes, breakMinutes)

LegacyResetTimer ==
    LegacyCommit("LegacyResetTimer",
        [state EXCEPT !.isRunning   = FALSE,
                      !.isBreak     = FALSE,
                      !.secondsLeft = workMinutes * SecondsPerMinute,
                      !.message     = LegacyFocusMessage],
        workMinutes, breakMinutes)

\* A number field is changed to the number v.
LegacyDurationChange(type, v) ==
    LET val == Max(1, v)
    IN  IF type = "work"
        THEN LegacyCommit("LegacyDurationChange",
                 IF ~state.isBreak
                 THEN [state EXCEPT !.secondsLeft = val * SecondsPerMinute]
                 ELSE state,
                 val, breakMinutes)
        ELSE LegacyCommit("LegacyDurationChange",
                 IF state.isBreak
                 THEN [state EXCEPT !.secondsLeft = val * SecondsPerMinute]
                 ELSE state,
                 workMinutes, val)

NextLegacy ==
    \/ LegacyTick
    \/ LegacyToggleTimer
    \/ LegacyResetTimer
    \/ \E type \in {"work", "break"}, v \in 0..MaxMinutes :
           LegacyDurationChange(type, v)

SpecLegacy == InitLegacy /\ [][NextLegacy]_vars

\* ------------------------------------------------ the timer left to itself

\* After the user has started the timer nothing but the interval and the
\* effects act.  The interval fires every second while it is armed and React
\* runs the effects of every commit, so both are taken whenever they stay
\* enabled.  The user starts an idle timer when they please.
NextAlone ==
    \/ TickLong
    \/ ~state.isRunning /\ toggleTimer
    \/ RunEffects

SpecAlone ==
    InitFailing /\ [][NextAlone]_vars /\ WF_vars(TickLong) /\ WF_vars(RunEffects)

\* ------------------------------------------------ the countdown scenario

\* No phase has been completed and the Work countdown stands at its full
\* duration: the durations may be set before the timer is started.
BeforeCountdown ==
    /\ ~state.isRunning
    /\ ~state.isBreak
    /\ state.workSessions = 0
    /\ state.breakSessions = 0
    /\ state.secondsLeft = workMinutes * SecondsPerMinute

\* The scenario: the work duration is set, the timer is started (and may be
\* paused and resumed), the ticks arrive and the effects run.
NextScenario ==
    \/ \E t \in Texts : BeforeCountdown /\ handleWorkInputBlur(t)
    \/ toggleTimer
    \/ Tick
    \/ RunEffects

SpecScenario == Init /\ [][NextScenario]_vars

\* ------------------------------------------------------------ properties

\* The duration in seconds of the phase that is active.
PhaseSeconds ==
    (IF state.isBreak THEN breakMinutes ELSE workMinutes) * SecondsPerMinute

\* The countdown of a running phase is at 0 and waits for its transition.
Crossing == state.secondsLeft <= 0 /\ state.isRunning

\* The log after one entry has been prepended to `log`.
LogGrewByOne(log, log2) ==
    /\ Len(log2) = Min(Len(log) + 1, LogKeep + 1)
    /\ \A i \in 2..Len(log2) : log2[i] = log[i - 1]

\* C1: every phase transition prepends exactly one log entry whose kind is
\* the phase that just ended, adds 1 to the counter of that phase and leaves
\* the other counter alone, flips isBreak and sets secondsLeft to the full
\* configured duration of the phase entered; it is a step of the effects,
\* not of a user handler.
C1_PhaseTransition ==
    [][dispatched' = 1 =>
         /\ lastOp' = "RunEffects"
         /\ LogGrewByOne(state.sessionLog, state'.sessionLog)
         /\ state'.sessionLog[1].type = (IF state.isBreak THEN "Break" ELSE "Work")
         /\ state'.workSessions =
                state.workSessions + (IF state.isBreak THEN 0 ELSE 1)
         /\ state'.breakSessions =
                state.breakSessions + (IF state.isBreak THEN 1 ELSE 0)
         /\ state'.isBreak = ~state.isBreak
         /\ state'.secondsLeft =
                (IF state'.isBreak THEN breakMinutes' ELSE workMinutes') * 60
      ]_vars

\* A Break has just ended: its entry heads the log over the Work entry.
C1_Witness ==
    /\ dispatched = 1
    /\ ~state.isBreak
    /\ state.workSessions = 1
    /\ state.breakSessions = 1
    /\ Len(state.sessionLog) = 2
    /\ state.sessionLog[1].type = "Break"
    /\ state.sessionLog[2].type = "Work"
    /\ state.secondsLeft = workMinutes * 60

\* C2: a transition out of Work leaves isRunning true whatever autoStart is,
\* a transition out of Break leaves isRunning equal to autoStart; the timer
\* that is left running has its interval armed, the one left idle has none
\* and stays idle until the user starts it.
C2_RunningAfterTransition ==
    [][/\ dispatched' = 1 =>
            /\ autoStart' = autoStart
            /\ state'.isRunning = (IF state.isBreak THEN autoStart ELSE TRUE)
            /\ intervals' = (IF state'.isRunning THEN 1 ELSE 0)
       /\ (~state.isRunning /\ state'.isRunning) =>
            lastOp' \in {"toggleTimer", "KeySpace"}
      ]_vars

\* A Break has ended with autoStart off: the timer is idle in Work.
C2_Witness ==
    /\ dispatched = 1
    /\ ~state.isBreak
    /\ ~autoStart
    /\ ~state.isRunning
    /\ intervals = 0

C4_ResetYieldsIdleWork ==
    lastOp \in {"resetTimer", "KeyR"} =>
        /\ ~state.isBreak
        /\ ~state.isRunning
        /\ state.secondsLeft = workMinutes * 60

\* C5: leaving the break field with a text that coerces to d, while the
\* timer is idle in Break, sets secondsLeft to d x 60 and stays in Break.
C5_BreakEditResyncs ==
    [][(lastOp' = "handleBreakInputBlur" /\ state.isBreak /\ ~state.isRunning) =>
         /\ state'.isBreak
         /\ state'.secondsLeft = breakMinutes' * 60
      ]_vars

\* C6: for every d >= 1, leaving the work field with the numeral of d while
\* the timer is idle in Work sets workMinutes to d and secondsLeft to d x 60,
\* whatever secondsLeft was.
C6_WorkEditResyncs ==
    [][(lastOp' = "handleWorkInputBlur" /\ ~state.isBreak /\ ~state.isRunning) =>
         \A d \in 1..MaxMinutes :
             lastArg' = StringOf(d) =>
                 /\ workMinutes' = d
                 /\ state'.secondsLeft = d * 60
                 /\ ~state'.isBreak
                 /\ ~state'.isRunning
      ]_vars

\* The work field has been left with "1" on an idle Work phase.
C6_Witness ==
    /\ lastOp = "handleWorkInputBlur"
    /\ lastArg = <<"1">>
    /\ workMinutes = 1
    /\ state.secondsLeft = 60
    /\ ~state.isBreak
    /\ ~state.isRunning

\* C7: in every reachable state 0 <= secondsLeft <= D x 60, D the configured
\* duration of the active phase.
C7_SecondsWithinPhase ==
    0 <= state.secondsLeft /\ state.secondsLeft <= PhaseSeconds

\* C8 as stated: whenever secondsLeft is 0, isRunning is false.
C8_IdleAtZero == state.secondsLeft = 0 => ~state.isRunning

\* C8 as amended: whenever secondsLeft is 0, isRunning is true: the state is
\* the one the tick from 1 left, with the phase transition effect scheduled.
C8_RunningAtZero ==
    state.secondsLeft = 0 =>
        /\ state.isRunning
        /\ lastOp = "Tick"
        /\ "phase" \in pending

\* The tick has brought secondsLeft to 0 and the effect has not run yet.
C8_Witness == state.secondsLeft = 0 /\ lastOp = "Tick" /\ pending = {"phase"}

\* C9: a tick at secondsLeft = n > 0 yields n - 1 and leaves isRunning,
\* isBreak, both counters and the log unchanged; it dispatches no phase
\* transition.
C9_TickFrame ==
    [][(lastOp' = "Tick" /\ state.secondsLeft > 0) =>
         /\ state'.secondsLeft = state.secondsLeft - 1
         /\ state'.isRunning = state.isRunning
         /\ state'.isBreak = state.isBreak
         /\ state'.workSessions = state.workSessions
         /\ state'.breakSessions = state.breakSessions
         /\ state'.sessionLog = state.sessionLog
         /\ dispatched' = 0
      ]_vars

\* The tick from 1 has acted: secondsLeft is 0 and the history is untouched.
C9_Witness ==
    /\ lastOp = "Tick"
    /\ state.secondsLeft = 0
    /\ state.isRunning
    /\ ~state.isBreak
    /\ state.workSessions = 0
    /\ state.sessionLog = <<>>

\* The history in memory and in the store is empty.
HistoryCleared ==
    /\ state.workSessions = 0
    /\ state.breakSessions = 0
    /\ state.sessionLog = <<>>
    /\ store.workSessions = <<JSONstringify("workSessions", 0)>>
    /\ store.breakSessions = <<JSONstringify("breakSessions", 0)>>
    /\ store.sessionLog = <<JSONstringify("sessionLog", <<>>)>>

\* C10: Reset History sets both counters to 0 and the log to empty in memory
\* and in the store and leaves secondsLeft, isRunning, isBreak and the armed
\* interval unchanged; the effects that follow keep all of that.
C10_ResetHistoryFrame ==
    [][(lastOp' = "confirmResetHistory"
        \/ (lastOp = "confirmResetHistory" /\ lastOp' = "RunEffects")) =>
         /\ HistoryCleared'
         /\ state'.secondsLeft = state.secondsLeft
         /\ state'.isRunning = state.isRunning
         /\ state'.isBreak = state.isBreak
         /\ intervals' = intervals
         /\ timerLive' = timerLive
      ]_vars

\* The history has been cleared during a running Break: the Break counts on
\* although no Work phase is on record.
C10_Witness ==
    /\ lastOp = "confirmResetHistory"
    /\ state.isBreak
    /\ state.isRunning
    /\ intervals = 1
    /\ state.secondsLeft < breakMinutes * 60
    /\ state.secondsLeft > 0

\* The log persisted under sessionLog, when the stored item is an array.
PersistedLogIsArray(st) ==
    Len(st.sessionLog) = 1 /\ st.sessionLog[1].json = "array"

PersistedLog(st) == st.sessionLog[1].val

\* C11: from a store whose log has at most 50 entries, the log in memory and
\* the persisted log never hold more than 50 entries; a phase transition
\* puts the new entry at the head of both, keeps the older entries in their
\* order behind it, and drops the last one when the log is full.
C11_LogCapped ==
    /\ [](/\ Len(state.sessionLog) <= LogCap
          /\ PersistedLogIsArray(store) => Len(PersistedLog(store)) <= LogCap)
    /\ [][dispatched' = 1 =>
            /\ LogGrewByOne(state.sessionLog, state'.sessionLog)
            /\ state'.sessionLog[1] =
                   LogEntry(state.isBreak, workMinutes, breakMinutes)
            /\ Len(state.sessionLog) = LogCap =>
                   state'.sessionLog[LogCap] = state.sessionLog[LogKeep]
            /\ PersistedLogIsArray(store) /\ PersistedLogIsArray(store')
            /\ LogGrewByOne(PersistedLog(store), PersistedLog(store'))
            /\ PersistedLog(store')[1] = StringifyEntry(state'.sessionLog[1])
         ]_vars

\* A Work phase has ended over a full log of 50 entries: its entry heads the
\* log, the entry that was 49th is the last, the one that was 50th is gone.
C11_Witness ==
    /\ dispatched = 1
    /\ Len(state.sessionLog) = LogCap
    /\ state.sessionLog[1] = [type |-> "Work", duration |-> formatTime(60)]
    /\ state.sessionLog[2] = StoredLog(LogCap)[1]
    /\ state.sessionLog[LogCap] = StoredLog(LogCap)[LogKeep]
    /\ PersistedLog(store) = JSONstringify("sessionLog", state.sessionLog).val

\* C12: from the default state, with the work duration set to d minutes and
\* the timer started, every tick of the Work countdown takes one second off
\* and fires no phase transition, so that k < d x 60 ticks leave d x 60 - k;
\* nothing but a tick moves the countdown once it has left d x 60; the tick
\* that reaches 0 is followed by exactly one phase transition, after which
\* isBreak is true, secondsLeft is breakMinutes x 60, workSessions is 1 and
\* the log is one Work entry.
C12_Scenario ==
    /\ [](~state.isBreak =>
            /\ state.secondsLeft \in 0..(workMinutes * 60)
            /\ state.workSessions = 0
            /\ state.sessionLog = <<>>)
    /\ [](state.isBreak =>
            /\ state.secondsLeft = breakMinutes * 60
            /\ state.workSessions = 1
            /\ state.breakSessions = 0
            /\ state.sessionLog =
                   <<[type |-> "Work", duration |-> formatTime(workMinutes * 60)]>>)
    /\ [][lastOp' = "Tick" =>
            /\ state.secondsLeft >= 1
            /\ state'.secondsLeft = state.secondsLeft - 1
            /\ dispatched' = 0
            /\ ~state'.isBreak
         ]_vars
    /\ [][state'.secondsLeft # state.secondsLeft =>
            \/ lastOp' = "Tick"
            \/ /\ lastOp' = "handleWorkInputBlur"
               /\ state.secondsLeft = workMinutes * 60
               /\ state'.secondsLeft = workMinutes' * 60
            \/ dispatched' = 1
         ]_vars
    /\ [][dispatched' = 1 =>
            /\ lastOp = "Tick"
            /\ state.secondsLeft = 0
            /\ ~state.isBreak
            /\ state'.isBreak
         ]_vars

\* The 60th tick of a one-minute Work phase has been followed by the phase
\* transition: the Break of 5 minutes stands at 300 seconds.
C12_Witness ==
    /\ dispatched = 1
    /\ workMinutes = 1
    /\ state.isBreak
    /\ state.secondsLeft = 300
    /\ state.workSessions = 1
    /\ state.sessionLog = <<[type |-> "Work", duration |-> formatTime(60)]>>

\* Texts that name no duration of a minute or more: empty, zero, negative,
\* not a number.
TextsBelowOne == {<<>>, <<"0">>, <<"-", "1">>, <<"e">>}

\* C13: whatever text a duration field is left with, the minutes committed
\* are an integer >= 1, and 1 for an empty, zero, negative or non-numeric
\* text; workMinutes, breakMinutes and secondsLeft only ever receive the
\* clamped value, so both durations are >= 1 in every state.
C13_DurationsClamped ==
    /\ [](/\ workMinutes \in Nat /\ workMinutes >= 1
          /\ breakMinutes \in Nat /\ breakMinutes >= 1
          /\ state.secondsLeft \in Nat)
    /\ [][lastOp' = "handleWorkInputBlur" =>
            /\ workMinutes' \in Nat /\ workMinutes' >= 1
            /\ lastArg' \in TextsBelowOne => workMinutes' = 1
            /\ breakMinutes' = breakMinutes
            /\ state'.secondsLeft \in {state.secondsLeft, workMinutes' * 60}
         ]_vars
    /\ [][lastOp' = "handleBreakInputBlur" =>
            /\ breakMinutes' \in Nat /\ breakMinutes' >= 1
            /\ lastArg' \in TextsBelowOne => breakMinutes' = 1
            /\ workMinutes' = workMinutes
            /\ state'.secondsLeft \in {state.secondsLeft, workMinutes * 60}
         ]_vars

\* The break field has been left with "-1": 1 minute is committed.
C13_Witness ==
    /\ lastOp = "handleBreakInputBlur"
    /\ lastArg = <<"-", "1">>
    /\ breakMinutes = 1
    /\ workMinutes = DefaultWorkMinutes

\* A stored element with a string id, a type of Work or Break, a string
\* duration and a string time.
WellFormedEntry(e) ==
    /\ ~e.isNull
    /\ e.id = "string"
    /\ e.type = "Work" \/ e.type = "Break"
    /\ e.duration.typeof = "string"
    /\ e.time = "string"

\* The store holds a sessionLog item that is not a sequence of well-formed
\* entries.
StoredLogInvalid(st) ==
    /\ Len(st.sessionLog) = 1
    /\ \/ st.sessionLog[1].json # "array"
       \/ \E i \in 1..Len(st.sessionLog[1].val) :
              ~WellFormedEntry(st.sessionLog[1].val[i])

\* C14: when the stored sessionLog is unparseable, is no sequence or has an
\* entry that is null or lacks a string id, a type of Work or Break, a string
\* duration or a string time, the load at startup takes the empty log, none
\* of the stored entries, and the component stands idle in the Work phase
\* with its effects scheduled as after any startup.
C14_CorruptLogDiscarded ==
    [][lastOp = "mount" /\ lastOp' = "RunEffects" /\ StoredLogInvalid(store) =>
         /\ state'.sessionLog = <<>>
         /\ ~state'.isRunning
         /\ ~state'.isBreak
         /\ state'.secondsLeft = workMinutes' * 60
         /\ "persist" \in pending'
      ]_vars

\* The store held one sound and one damaged entry and counters of 1 and 1:
\* the counters are loaded, the log is empty, and the timer has been started.
C14_Witness ==
    /\ state.workSessions = 1
    /\ state.breakSessions = 1
    /\ state.sessionLog = <<>>
    /\ state.isRunning
    /\ intervals = 1

\* C15: the step that dispatches a phase transition also writes workSessions,
\* breakSessions and sessionLog to the store, and what it writes is what the
\* transition leaves in memory: the same counters and a log of the same
\* length whose entries, the newest first, have the same type and duration.
C15_SavedWithTransition ==
    [][dispatched' = 1 =>
         /\ store'.workSessions =
                <<JSONstringify("workSessions", state'.workSessions)>>
         /\ store'.breakSessions =
                <<JSONstringify("breakSessions", state'.breakSessions)>>
         /\ PersistedLogIsArray(store')
         /\ Len(PersistedLog(store')) = Len(state'.sessionLog)
         /\ \A i \in 1..Len(state'.sessionLog) :
                /\ PersistedLog(store')[i].type = state'.sessionLog[i].type
                /\ PersistedLog(store')[i].duration.val =
                       state'.sessionLog[i].duration
      ]_vars

\* A Break has ended: the store already holds both counters at 1 and a log
\* of two entries headed by the Break, while the persist effect is pending.
C15_Witness ==
    /\ dispatched = 1
    /\ "persist" \in pending
    /\ state.breakSessions = 1
    /\ store.breakSessions = <<JSONstringify("breakSessions", 1)>>
    /\ store.workSessions = <<JSONstringify("workSessions", 1)>>
    /\ Len(PersistedLog(store)) = 2
    /\ PersistedLog(store)[1].type = "Break"

\* What a startup over the store st loads for the six persisted keys.
Loaded(st) ==
    [workMinutes   |-> getLocalStorage(st, "workMinutes", DefaultWorkMinutes),
     breakMinutes  |-> getLocalStorage(st, "breakMinutes", DefaultBreakMinutes),
     autoStart     |-> getLocalStorage(st, "autoStart", FALSE),
     workSessions  |-> getLocalStorage(st, "workSessions", 0),
     breakSessions |-> getLocalStorage(st, "breakSessions", 0),
     sessionLog    |-> getLocalStorage(st, "sessionLog", <<>>)]

\* What memory holds of the six persisted values.
Held ==
    [workMinutes   |-> workMinutes,
     breakMinutes  |-> breakMinutes,
     autoStart     |-> autoStart,
     workSessions  |-> state.workSessions,
     breakSessions |-> state.breakSessions,
     sessionLog    |-> state.sessionLog]

\* The first run of the effects after a mount.
LoadStep == lastOp = "mount" /\ lastOp' = "RunEffects"

\* C16: once the effects of an operation have run, a startup over the store
\* loads the six values memory holds; the load at startup takes the values
\* the store held, the effects that follow leave them in memory, and when
\* they have run the store holds them again, not the defaults the persist
\* effect wrote first.
C16_StoreMirrorsMemory ==
    /\ [](pending = {} => Loaded(store) = Held)
    /\ [][LoadStep =>
            /\ Held' = Loaded(store)
            /\ Loaded(store') # Held' => "persist" \in pending'
         ]_vars
    /\ [][lastOp = "RunEffects" /\ lastOp' = "RunEffects" /\ dispatched' = 0 =>
            /\ Held' = Held
            /\ Loaded(store') = Held'
         ]_vars

\* A startup has loaded one-minute durations, auto-start and a history of
\* one Work phase; the persist effect has written the defaults and is
\* scheduled again.
C16_Witness ==
    /\ lastOp = "RunEffects"
    /\ "persist" \in pending
    /\ workMinutes = 1
    /\ breakMinutes = 1
    /\ autoStart
    /\ state.workSessions = 1
    /\ Len(state.sessionLog) = 1
    /\ Loaded(store).workMinutes = DefaultWorkMinutes
    /\ Loaded(store).sessionLog = <<>>

\* The value stored under a key that holds a number or a boolean, else d.
StoredOr(st, key, d) == IF Len(st[key]) = 1 THEN st[key][1].val ELSE d

\* The entries of the stored log when it is present and valid, else none.
StoredLogOrEmpty(st) ==
    IF Len(st.sessionLog) = 0 \/ StoredLogInvalid(st) THEN <<>>
    ELSE [i \in 1..Len(PersistedLog(st)) |->
             [type     |-> PersistedLog(st)[i].type,
              duration |-> PersistedLog(st)[i].duration.val]]

\* C17: the load at startup leaves the timer idle in the Work phase with
\* secondsLeft at the loaded workMinutes x 60, and gives workMinutes,
\* breakMinutes, autoStart, workSessions, breakSessions and the log each its
\* stored value when the key is present and else 25, 5, false, 0, 0 and the
\* empty log.
C17_StartsIdleWork ==
    [][LoadStep =>
         /\ ~state'.isRunning
         /\ ~state'.isBreak
         /\ state'.secondsLeft = workMinutes' * 60
         /\ intervals' = 0
         /\ workMinutes' = StoredOr(store, "workMinutes", 25)
         /\ breakMinutes' = StoredOr(store, "breakMinutes", 5)
         /\ autoStart' = StoredOr(store, "autoStart", FALSE)
         /\ state'.workSessions = StoredOr(store, "workSessions", 0)
         /\ state'.breakSessions = StoredOr(store, "breakSessions", 0)
         /\ state'.sessionLog = StoredLogOrEmpty(store)
      ]_vars

\* A startup over a store without workMinutes: the countdown stands at the
\* default 25 minutes, the other values are the stored ones.
C17_Witness ==
    /\ lastOp = "RunEffects"
    /\ "persist" \in pending
    /\ workMinutes = DefaultWorkMinutes
    /\ breakMinutes = 1
    /\ autoStart
    /\ state.workSessions = 1
    /\ state.sessionLog = StoredLog(1)
    /\ ~state.isRunning
    /\ ~state.isBreak
    /\ state.secondsLeft = 1500

\* C18: never more than one interval is armed, and the one that is armed is
\* the one timerRef names; the step in which the phase transition effect
\* re-arms the interval leaves exactly that one; a tick takes no more than 1
\* off secondsLeft.
C18_OneInterval ==
    /\ [](/\ intervals \in {0, 1}
          /\ intervals = 1 => timerLive)
    /\ [][dispatched' = 1 /\ state'.isRunning =>
            intervals' = 1 /\ timerLive']_vars
    /\ [][lastOp' = "Tick" =>
            state'.secondsLeft >= state.secondsLeft - 1]_vars

\* The phase transition effect has re-armed the interval for the Break: one
\* interval is armed, the one timerRef names, and only the persist effect is
\* still to run.
C18_Witness ==
    /\ dispatched = 1
    /\ state.isBreak
    /\ state.isRunning
    /\ intervals = 1
    /\ timerLive
    /\ pending = {"persist"}

\* C19: when the effects of a step have run, one interval is armed if the
\* timer is running and none if it is not; a tick only ever arrives at a
\* running timer with its one interval armed; a phase transition that ends
\* in an idle timer leaves no interval armed in that very step; and a newly
\* mounted component has none, whatever the one torn down was doing.
C19_TicksOnlyWhileRunning ==
    /\ [](pending = {} =>
            /\ state.isRunning => intervals = 1 /\ timerLive
            /\ ~state.isRunning => intervals = 0)
    /\ [][lastOp' = "Tick" => state.isRunning /\ intervals = 1]_vars
    /\ [][dispatched' = 1 /\ ~state'.isRunning => intervals' = 0]_vars
    /\ [][lastOp' = "mount" => intervals' = 0 /\ ~state'.isRunning]_vars

\* A Break has ended without auto-start: the Work phase waits, no interval
\* is armed.
C19_Witness ==
    /\ dispatched = 1
    /\ ~state.isRunning
    /\ ~state.isBreak
    /\ ~autoStart
    /\ state.breakSessions = 1
    /\ intervals = 0
    /\ state.secondsLeft = workMinutes * 60

\* A step of the component in which setItem throws for a key it writes.
SaveFailed == toasts' > 0

\* C20: a save that fails shows a toast and nothing else: the stored item
\* stays as it was, the step changes memory as the same step does when the
\* save succeeds (a tick takes 1 off, a toggle flips isRunning, Clear History
\* empties the history, a phase transition counts, logs and switches the
\* phase), the guard of the phase transition is released, and the interval
\* is armed for the phase entered exactly when the timer runs.
C20_SaveFailureHarmless ==
    /\ [](~isLoggingRef)
    /\ [](pending = {} => (state.isRunning <=> intervals = 1))
    /\ [][SaveFailed =>
            /\ failing # {}
            /\ lastOp' \in {"RunEffects", "confirmResetHistory"}
            /\ \A k \in failing : store'[k] = store[k]
         ]_vars
    /\ [][lastOp' = "Tick" =>
            state' = [state EXCEPT !.secondsLeft = state.secondsLeft - 1]]_vars
    /\ [][lastOp' = "toggleTimer" =>
            /\ state'.isRunning = ~state.isRunning
            /\ state'.secondsLeft = state.secondsLeft]_vars
    /\ [][lastOp' = "confirmResetHistory" =>
            /\ state'.workSessions = 0
            /\ state'.breakSessions = 0
            /\ state'.sessionLog = <<>>
            /\ state'.secondsLeft = state.secondsLeft
            /\ state'.isRunning = state.isRunning
            /\ toasts' = Cardinality(failing \cap HistoryKeys)]_vars
    /\ [][dispatched' = 1 =>
            /\ state'.isBreak = ~state.isBreak
            /\ state'.isRunning = (state'.isBreak \/ autoStart)
            /\ state'.secondsLeft =
                   (IF state'.isBreak THEN breakMinutes ELSE workMinutes) * 60
            /\ state'.workSessions + state'.breakSessions =
                   state.workSessions + state.breakSessions + 1
            /\ Len(state'.sessionLog) = Len(state.sessionLog) + 1
            /\ intervals' = (IF state'.isRunning THEN 1 ELSE 0)
            /\ toasts' >= Cardinality(failing \cap HistoryKeys)]_vars
    /\ [][lastOp' \notin {"mount", "RunEffects", "StorageChanges"} =>
            intervals' = intervals]_vars

\* Storage is denied: a Work phase has ended, three toasts were shown, the
\* store still holds the empty history, and the Break runs with its interval
\* armed.
C20_Witness ==
    /\ dispatched = 1
    /\ failing = Keys
    /\ toasts = 3
    /\ Loaded(store).workSessions = 0
    /\ Loaded(store).sessionLog = <<>>
    /\ state.isBreak
    /\ state.isRunning
    /\ state.workSessions = 1
    /\ Len(state.sessionLog) = 1
    /\ intervals = 1

\* The stored item under `key` is absent, unparseable or, for sessionLog, no
\* sequence of well-formed entries.
Unusable(st, key) ==
    \/ Len(st[key]) = 0
    \/ st[key][1].json = "invalid"
    \/ key = "sessionLog" /\ StoredLogInvalid(st)

\* The value the text stored under `key` stands for.
StoredValue(st, key) ==
    IF key = "sessionLog"
    THEN [i \in 1..Len(st[key][1].val) |->
             [type     |-> st[key][1].val[i].type,
              duration |-> st[key][1].val[i].duration.val]]
    ELSE st[key][1].val

\* C21: the load at startup settles each of the six keys on its own: a key
\* whose item is absent, unparseable or (for sessionLog) malformed takes its
\* default, and every other key takes the value stored under it, whatever
\* the state of the other keys.
C21_KeysLoadIndependently ==
    [][LoadStep =>
         \A k \in Keys :
             Held'[k] = IF Unusable(store, k) THEN DefaultOf(k)
                        ELSE StoredValue(store, k)]_vars

\* A startup over a store whose workMinutes item is unparseable has taken the
\* default work duration and the stored break duration, auto-start flag,
\* counter and log.
C21_Witness ==
    /\ lastOp = "RunEffects"
    /\ pending = {}
    /\ dispatched = 0
    /\ workMinutes = DefaultWorkMinutes
    /\ breakMinutes = 1
    /\ autoStart
    /\ state.workSessions = 1
    /\ state.sessionLog = StoredLog(1)

\* A duration field has just been left.
FieldLeft(op) == op = "handleWorkInputBlur" \/ op = "handleBreakInputBlur"

\* C22: leaving a duration field while the timer runs changes none of
\* secondsLeft, isBreak and isRunning, and neither do the effects that run
\* after it; so the break duration edited during a running Work phase, and
\* the work duration edited during a running Break phase, leave the countdown
\* in flight as it was.
C22_RunningEditKeepsCountdown ==
    [][/\ state.isRunning
       /\ \/ FieldLeft(lastOp')
          \/ FieldLeft(lastOp) /\ lastOp' = "RunEffects"
       => /\ state'.secondsLeft = state.secondsLeft
          /\ state'.isBreak = state.isBreak
          /\ state'.isRunning = state.isRunning]_vars

\* The work field has been left with another duration while a Break phase was
\* counting down, and the countdown is still in flight.
C22_Witness ==
    /\ lastOp = "handleWorkInputBlur"
    /\ state.isRunning
    /\ state.isBreak
    /\ state.workSessions = 1
    /\ workMinutes = 1
    /\ state.secondsLeft > 0
    /\ state.secondsLeft < breakMinutes * SecondsPerMinute

\* C23: Stop, in whatever state, sets isRunning to false and leaves every
\* other field of the state (isBreak, secondsLeft, the message, both counters
\* and the log) as it was, and the effects that run after it change nothing
\* of the state; Stop on an idle timer leaves the state as it is.
C23_StopFrame ==
    [][/\ lastOp' = "stopTimer" =>
            /\ state' = [state EXCEPT !.isRunning = FALSE]
            /\ ~state.isRunning => state' = state
       /\ lastOp = "stopTimer" /\ lastOp' = "RunEffects" => state' = state]_vars

\* Stop has halted a Break phase in the middle of its countdown, the Work
\* phase before it counted and logged.
C23_Witness ==
    /\ lastOp = "stopTimer"
    /\ ~state.isRunning
    /\ state.isBreak
    /\ state.secondsLeft > 0
    /\ state.secondsLeft < breakMinutes * SecondsPerMinute
    /\ state.workSessions = 1
    /\ Len(state.sessionLog) = 1

\* The start/pause button or the Space key has just acted.
Toggled(op) == op = "toggleTimer" \/ op = "KeySpace"

\* C24: a toggle, from the button or from Space and in whatever state,
\* flips isRunning and leaves secondsLeft, isBreak, both counters and the log
\* as they were, and the effects that run after it change nothing of the
\* state; so a pause followed by a start, with no tick between them, has
\* isRunning true again at the same secondsLeft.
C24_ToggleFrame ==
    [][/\ Toggled(lastOp') =>
            /\ state'.isRunning = ~state.isRunning
            /\ state'.secondsLeft = state.secondsLeft
            /\ state'.isBreak = state.isBreak
            /\ state'.workSessions = state.workSessions
            /\ state'.breakSessions = state.breakSessions
            /\ state'.sessionLog = state.sessionLog
       /\ Toggled(lastOp) /\ lastOp' = "RunEffects" => state' = state]_vars

\* Space has resumed a paused Break phase in the middle of its countdown.
C24_Witness ==
    /\ lastOp = "KeySpace"
    /\ state.isRunning
    /\ state.isBreak
    /\ state.secondsLeft > 0
    /\ state.secondsLeft < breakMinutes * SecondsPerMinute
    /\ state.workSessions = 1

\* The number of entries of `log` with the type ty.
CountOf(ty, log) == Cardinality({i \in 1..Len(log) : log[i].type = ty})

\* C25: from an empty history, and after every Reset History, the log holds
\* min(50, workSessions + breakSessions) entries, and while the two counters
\* sum to at most 50 its Work entries are workSessions many and its Break
\* entries breakSessions many.
C25_LogMatchesCounters ==
    LET n == state.workSessions + state.breakSessions
    IN  /\ Len(state.sessionLog) = Min(50, n)
        /\ n <= 50 =>
              /\ CountOf("Work", state.sessionLog) = state.workSessions
              /\ CountOf("Break", state.sessionLog) = state.breakSessions

\* A fifty-first phase has completed: the log stays at 50 entries, one fewer
\* than the counters sum to.
C25_Witness ==
    /\ state.workSessions + state.breakSessions = 51
    /\ Len(state.sessionLog) = 50
    /\ lastOp = "RunEffects"
    /\ dispatched = 1

\* C26: whatever is stored under workMinutes and breakMinutes, the load at
\* startup leaves both durations integers of at least 1 and secondsLeft a
\* positive integer.  The load takes a stored 0 or -1 as it is.
C26_LoadedDurationsPositive ==
    [][LoadStep =>
         /\ workMinutes' \in Nat /\ workMinutes' >= 1
         /\ breakMinutes' \in Nat /\ breakMinutes' >= 1
         /\ state'.secondsLeft \in Nat /\ state'.secondsLeft >= 1]_vars

\* The messages of the Break phase and those of the Work phase.
BreakMessages == {BreakStartMessage, BreakMessage}

WorkMessages == {FocusMessage, BackToWorkMessage}

\* C27: after a toggle from the button or from Space, after a reset and after
\* a phase transition, the message is one of the Break phase exactly when
\* isBreak is true and one of the Work phase exactly when it is false.  Space
\* during a Break phase sets the focus message.
C27_MessageMatchesPhase ==
    [][\/ Toggled(lastOp')
       \/ lastOp' = "resetTimer"
       \/ lastOp' = "KeyR"
       \/ lastOp' = "RunEffects" /\ dispatched' = 1
       => /\ state'.message \in BreakMessages <=> state'.isBreak
          /\ state'.message \in WorkMessages <=> ~state'.isBreak]_vars

\* C28: in the legacy component, the tick that brings a countdown to zero
\* increments workSessions, and only that, when a Work phase ends, and
\* breakSessions, and only that, when a Break phase ends.  The component
\* counts by the phase it enters.
C28_LegacyCountsCompletedPhase ==
    [][lastOp' = "LegacyTick" /\ state.secondsLeft = 1 =>
         IF state.isBreak
         THEN /\ state'.breakSessions = state.breakSessions + 1
              /\ state'.workSessions = state.workSessions
         ELSE /\ state'.workSessions = state.workSessions + 1
              /\ state'.breakSessions = state.breakSessions]_vars

\* The phases completed so far.
Completed == state.workSessions + state.breakSessions

\* The phases the model lets complete when the timer is left to itself.
Horizon == LogCap + MaxSessions

\* The effects have just made a phase transition.
Transitioned == lastOp = "RunEffects" /\ dispatched = 1

\* C29: with auto-start on and the timer started and left to itself, within
\* the horizon of the model every running phase ends in a phase transition,
\* so transitions keep coming; a transition is the only step that changes
\* the phase and each one flips it, so Work and Break alternate; a countdown
\* at 0 gets a new duration; and the timer, once running, never turns idle.
C29_PhasesKeepEnding ==
    /\ (autoStart /\ state.isRunning /\ Completed < Horizon) ~>
           (Transitioned /\ state.isRunning)
    /\ \A k \in 0..(Horizon - 1) :
           (autoStart /\ state.isRunning /\ Completed = k) ~>
              (Completed = k + 1)
    /\ (autoStart /\ state.isRunning /\ state.secondsLeft = 0) ~>
           (state.secondsLeft > 0)
    /\ [][autoStart =>
            /\ dispatched' = 1 => state'.isBreak = ~state.isBreak
            /\ state'.isBreak # state.isBreak => dispatched' = 1
            /\ state.isRunning => state'.isRunning]_vars

\* With auto-start on, a third Work phase is counting down: Work, Break,
\* Work and Break have ended in turn.
C29_Witness ==
    /\ autoStart
    /\ state.isRunning
    /\ ~state.isBreak
    /\ state.workSessions = 2
    /\ state.breakSessions = 2
    /\ state.secondsLeft < workMinutes * SecondsPerMinute
    /\ state.sessionLog[1].type = "Break"
    /\ state.sessionLog[2].type = "Work"

\* The timer stands idle at the start of a Work phase with no interval armed
\* and no effect waiting, k phases completed.
Quiescent(k) ==
    /\ ~state.isRunning
    /\ ~state.isBreak
    /\ state.secondsLeft = workMinutes * SecondsPerMinute
    /\ intervals = 0
    /\ pending = {}
    /\ Completed = k

\* C30: with auto-start off, a timer started from idle Work and left to
\* itself makes one Work to Break and one Break to Work transition, no
\* more, and comes to rest idle in Work with secondsLeft = workMinutes x 60;
\* at rest no tick and no effect is enabled, and the only step out of it is a
\* start by the user.
C30_ComesToRest ==
    /\ \A k \in 0..(Horizon - 2) :
           (~autoStart /\ state.isRunning /\ ~state.isBreak /\ Completed = k
              /\ lastOp = "toggleTimer") ~>
           (Quiescent(k + 2) /\ state.workSessions = k \div 2 + 1
              /\ state.breakSessions = k \div 2 + 1)
    /\ [][\A k \in 0..Horizon :
            ~autoStart /\ lastOp # "mount" /\ Quiescent(k) =>
               /\ lastOp' = "toggleTimer"
               /\ state'.isRunning
               /\ Completed' = k]_vars
    /\ [](\A k \in 0..Horizon :
            ~autoStart /\ lastOp # "mount" /\ Quiescent(k) =>
               ~ENABLED TickLong /\ ~ENABLED RunEffects)

\* With auto-start off, the timer is at rest after one Work and one Break
\* phase, the Break to Work transition just made.
C30_Witness ==
    /\ ~autoStart
    /\ Quiescent(2)
    /\ state.workSessions = 1
    /\ state.breakSessions = 1
    /\ lastOp = "RunEffects"
    /\ state.sessionLog[1].type = "Break"

\* The history in memory: both counters and the log.
History == <<state.workSessions, state.breakSessions, state.sessionLog>>

\* A step of startup: the component is mounted, or the effects of the mount
\* load the store.
StartupStep == lastOp' = "mount" \/ LoadStep

\* The handlers that are no part of the history: the tick, start/pause from
\* the button and from Space, stop, reset from the button and from R, the
\* two duration fields and the auto-start checkbox.
LeavesHistory(op) ==
    op \in {"Tick", "toggleTimer", "KeySpace", "stopTimer", "resetTimer",
            "KeyR", "handleWorkInputBlur", "handleBreakInputBlur",
            "setAutoStart"}

\* C31: after startup the counters and the log change only by a phase
\* transition, which adds 1 to one counter, leaves the other and prepends
\* one entry, or by Reset History, which clears all three; the tick, the
\* toggle, stop, reset, the duration fields and the auto-start checkbox
\* leave them as they are, and so do the effects that make no transition; a
\* counter goes down only through Reset History.
C31_HistoryFrame ==
    /\ [][History' # History /\ ~StartupStep =>
            \/ /\ lastOp' = "RunEffects"
               /\ dispatched' = 1
               /\ \/ /\ state'.workSessions = state.workSessions + 1
                     /\ state'.breakSessions = state.breakSessions
                  \/ /\ state'.breakSessions = state.breakSessions + 1
                     /\ state'.workSessions = state.workSessions
               /\ LogGrewByOne(state.sessionLog, state'.sessionLog)
            \/ /\ lastOp' = "confirmResetHistory"
               /\ History' = <<0, 0, <<>> >>]_vars
    /\ [][\/ LeavesHistory(lastOp')
          \/ lastOp' = "RunEffects" /\ dispatched' = 0 /\ ~LoadStep
          => History' = History]_vars
    /\ [][/\ \/ state'.workSessions < state.workSessions
             \/ state'.breakSessions < state.breakSessions
          /\ ~StartupStep
          => lastOp' = "confirmResetHistory"]_vars

\* The timer has been reset after a Work and a Break phase: both counters
\* and the two log entries are still there.
C31_Witness ==
    /\ lastOp = "resetTimer"
    /\ state.workSessions = 1
    /\ state.breakSessions = 1
    /\ Len(state.sessionLog) = 2
    /\ ~state.isRunning

====
